---- MODULE Spec2Model ----
(***************************************************************************)
(* Model of the counter widget of src/app/page.tsx (component Home).       *)
(*                                                                         *)
(* The widget is a React function component with two state hooks (count,  *)
(* soundEnabled), four effects (preload audio, read localStorage, save     *)
(* count, save soundEnabled) and four click handlers.  Events are handled  *)
(* one at a time: a click handler, the re-render it schedules and the      *)
(* effects of that re-render form one step.  Mounting is split in the      *)
(* steps the browser can observe: first paint, the mount effects, and the  *)
(* re-render that adopts the values the read effect has queued.            *)
(*                                                                         *)
(* Text (the values of localStorage) is a sequence of one-character        *)
(* strings; a JavaScript number is a record that is either an integer or   *)
(* NaN.  In Spec every effect runs once per mount and once per change of   *)
(* its dependency, as the comments of the source state; SpecStrict adds    *)
(* the re-run of the mount effects that a development build makes.         *)
(***************************************************************************)
EXTENDS Integers, Sequences, FiniteSets, TLC

VARIABLES
    phase,          \* "unmounted", "painted", "pending", "idle"
    count,          \* useState(0): the rendered count
    soundEnabled,   \* useState(true): the rendered sound flag
    updates,        \* state updates queued by setCount/setSoundEnabled
    store,          \* localStorage: key -> entry
    preload,        \* the Audio instances of the mount effect
    lastPlay,       \* what playClickSound did in the last step
    written,        \* keys written by setItem in the last step
    readKeys,       \* keys read by getItem in the last step
    reads,          \* key -> number of getItem calls since the last mount
    lastOp,         \* name of the last step
    run,            \* the current run of identical user actions
    prev,           \* the widget as it was at the last unmount
    storeAtMount    \* localStorage as it was at the last mount

vars == <<phase, count, soundEnabled, updates, store, preload, lastPlay,
          written, readKeys, reads, lastOp, run, prev, storeAtMount>>

-----------------------------------------------------------------------------
(* Bounds *)

MaxCount == 4

MaxRun == 3

-----------------------------------------------------------------------------
(* JavaScript values *)

Num(n) == [kind |-> "num", val |-> n]

NaN == [kind |-> "nan", val |-> 0]

IsNum(c) == c.kind = "num"

\* Object.is on numbers, as React compares a state with the previous one
SameValue(a, b) == a = b

\* a + b on numbers
Plus(a, b) == IF IsNum(a) /\ IsNum(b) THEN Num(a.val + b.val) ELSE NaN

\* a - b on numbers
Minus(a, b) == IF IsNum(a) /\ IsNum(b) THEN Num(a.val - b.val) ELSE NaN

\* Math.max passing over a NaN argument
MathMaxSkipNaN(a, b) ==
    IF ~IsNum(a) THEN b
    ELSE IF ~IsNum(b) THEN a
    ELSE IF a.val >= b.val THEN a ELSE b

\* Math.max(a, b): NaN if either argument is NaN
MathMax(a, b) ==
    IF IsNum(a) /\ IsNum(b)
    THEN (IF a.val >= b.val THEN a ELSE b)
    ELSE NaN

-----------------------------------------------------------------------------
(* Text *)

Digits == <<"0", "1", "2", "3", "4", "5", "6", "7", "8", "9">>

IsDigit(ch) == \E i \in 1..Len(Digits) : Digits[i] = ch

DigitVal(ch) == (CHOOSE i \in 1..Len(Digits) : Digits[i] = ch) - 1

IsWhiteSpace(ch) == ch = " "

Radix == 10

RECURSIVE TrimStart(_)
TrimStart(s) ==
    IF s # <<>> /\ IsWhiteSpace(Head(s)) THEN TrimStart(Tail(s)) ELSE s

\* the longest prefix of s made of digits
RECURSIVE DigitPrefix(_)
DigitPrefix(s) ==
    IF s # <<>> /\ IsDigit(Head(s))
    THEN <<Head(s)>> \o DigitPrefix(Tail(s))
    ELSE <<>>

\* the value of a sequence of digits, given the value acc of the digits before
RECURSIVE DigitsValue(_, _)
DigitsValue(s, acc) ==
    IF s = <<>> THEN acc
    ELSE DigitsValue(Tail(s), acc * Radix + DigitVal(Head(s)))

\* parseInt(s, 10): leading white space is skipped, an optional sign is read,
\* then the longest run of digits; text after it is ignored; no digit: NaN
parseInt(s) ==
    LET t    == TrimStart(s)
        neg  == t # <<>> /\ Head(t) = "-"
        body == IF t # <<>> /\ Head(t) \in {"-", "+"} THEN Tail(t) ELSE t
        z    == DigitPrefix(body)
    IN  IF z = <<>> THEN NaN
        ELSE Num((IF neg THEN -1 ELSE 1) * DigitsValue(z, 0))

RECURSIVE NatToText(_)
NatToText(n) ==
    IF n < Radix THEN <<Digits[n + 1]>>
    ELSE NatToText(n \div Radix) \o <<Digits[(n % Radix) + 1]>>

\* Number.prototype.toString on an integer or NaN
NumberToString(c) ==
    IF ~IsNum(c) THEN <<"N", "a", "N">>
    ELSE IF c.val < 0 THEN <<"-">> \o NatToText(-c.val)
    ELSE NatToText(c.val)

\* Boolean.prototype.toString
BooleanToString(b) ==
    IF b THEN <<"t", "r", "u", "e">> ELSE <<"f", "a", "l", "s", "e">>

-----------------------------------------------------------------------------
(* localStorage *)

CounterKey == "counter-value"

SoundKey == "sound-enabled"

Keys == {CounterKey, SoundKey}

Absent == [present |-> FALSE, text |-> <<>>]

Present(t) == [present |-> TRUE, text |-> t]

\* localStorage.getItem(key): null when the key is absent
getItem(st, key) == st[key]

\* localStorage.setItem(key, text)
setItem(st, key, t) == [st EXCEPT ![key] = Present(t)]

\* what the store may hold for 'counter-value' when the page is opened
InitCounterTexts ==
    { <<"0">>, <<"3">>, <<"7">>, <<"1", "2">>, <<"-", "3">>,
      <<"7", ".", "5">>, <<" ", "2">>, <<"a", "b", "c">>, <<>> }

\* what the store may hold for 'sound-enabled' when the page is opened
InitSoundTexts ==
    { BooleanToString(TRUE), BooleanToString(FALSE), <<"T", "R", "U", "E">> }

InitStores ==
    { [k \in Keys |-> IF k = CounterKey THEN c ELSE s] :
        c \in {Absent} \cup {Present(t) : t \in InitCounterTexts},
        s \in {Absent} \cup {Present(t) : t \in InitSoundTexts} }

-----------------------------------------------------------------------------
(* State hooks and queued updates *)

DefaultCount == Num(0)

DefaultSound == TRUE

SetCount(v) == [var |-> "count", num |-> v, flag |-> FALSE]

SetSoundEnabled(b) == [var |-> "soundEnabled", num |-> NaN, flag |-> b]

\* the value of count after the queued updates, applied in order
RECURSIVE ApplyCount(_, _)
ApplyCount(c, ups) ==
    IF ups = <<>> THEN c
    ELSE ApplyCount(IF Head(ups).var = "count" THEN Head(ups).num ELSE c,
                    Tail(ups))

\* the value of soundEnabled after the queued updates, applied in order
RECURSIVE ApplySound(_, _)
ApplySound(b, ups) ==
    IF ups = <<>> THEN b
    ELSE ApplySound(IF Head(ups).var = "soundEnabled" THEN Head(ups).flag ELSE b,
                    Tail(ups))

-----------------------------------------------------------------------------
(* Click sound *)

Outcomes == {"ok", "rejected"}

NoPlay == [handle |-> "none", currentTime |-> 0, request |-> "none",
           logged |-> FALSE, raised |-> FALSE]

\* playClickSound without the test of soundEnabled
playClickSoundAlways(enabled, outcome) ==
    [handle |-> "fresh", currentTime |-> 0, request |-> outcome,
     logged |-> (outcome = "rejected"), raised |-> FALSE]

\* playClickSound without the catch: the rejection leaves the handler
playClickSoundUncaught(enabled, outcome) ==
    IF ~enabled THEN NoPlay
    ELSE [handle |-> "fresh", currentTime |-> 0, request |-> outcome,
          logged |-> FALSE, raised |-> (outcome = "rejected")]

\* playClickSound playing one Audio instance kept between calls
playClickSoundReuse(enabled, outcome) ==
    IF ~enabled THEN NoPlay
    ELSE [handle |-> "reused", currentTime |-> 0, request |-> outcome,
          logged |-> (outcome = "rejected"), raised |-> FALSE]

\* playClickSound: nothing when the sound is off; else a new Audio set to
\* time zero whose play() is requested; a rejection is logged by the catch
playClickSound(enabled, outcome) ==
    IF ~enabled THEN NoPlay
    ELSE [handle |-> "fresh", currentTime |-> 0, request |-> outcome,
          logged |-> (outcome = "rejected"), raised |-> FALSE]

-----------------------------------------------------------------------------
(* Effects *)

\* no Audio instance of the mount effect exists
NoPreload == [live |-> 0, created |-> 0, cleanup |-> "none"]

\* the Audio effect: a new Audio instance is created and loaded; live counts
\* the instances not released, created the ones made since the last mount
AudioEffect(p) == [p EXCEPT !.live = @ + 1, !.created = @ + 1]

\* the cleanup of the Audio effect, pausing and keeping the source
AudioCleanupPauseOnly(p) == [p EXCEPT !.cleanup = "paused"]

\* the cleanup of the Audio effect: the instance of this mount is paused and
\* its src is cleared
AudioCleanup(p) == [p EXCEPT !.live = @ - 1, !.cleanup = "paused, src cleared"]

\* getItem has been called once more on each key of ks
CountReads(rd, ks) == [k \in Keys |-> IF k \in ks THEN rd[k] + 1 ELSE rd[k]]

\* the read effect with the keys swapped
ReadEffectSwapped(st) ==
    (IF getItem(st, SoundKey).present
     THEN <<SetCount(parseInt(getItem(st, SoundKey).text))>> ELSE <<>>)
    \o
    (IF getItem(st, CounterKey).present
     THEN <<SetSoundEnabled(getItem(st, CounterKey).text = BooleanToString(TRUE))>>
     ELSE <<>>)

\* the read effect taking any stored non-empty text for true
ReadEffectTruthy(st) ==
    (IF getItem(st, CounterKey).present
     THEN <<SetCount(parseInt(getItem(st, CounterKey).text))>> ELSE <<>>)
    \o
    (IF getItem(st, SoundKey).present
     THEN <<SetSoundEnabled(getItem(st, SoundKey).text # <<>>)>>
     ELSE <<>>)

\* the effect that reads localStorage at mount: the updates it queues
ReadEffect(st) ==
    (IF getItem(st, CounterKey).present
     THEN <<SetCount(parseInt(getItem(st, CounterKey).text))>> ELSE <<>>)
    \o
    (IF getItem(st, SoundKey).present
     THEN <<SetSoundEnabled(getItem(st, SoundKey).text = BooleanToString(TRUE))>>
     ELSE <<>>)

\* the save effect of count, saving nothing
SaveCountEffectSkip(st, c) == st

\* the effect that saves count
SaveCountEffect(st, c) == setItem(st, CounterKey, NumberToString(c))

\* the effect that saves soundEnabled
SaveSoundEffect(st, b) == setItem(st, SoundKey, BooleanToString(b))

\* the effects after a re-render, with the save of soundEnabled left out
EffectsAfterRenderCountOnly(st, c, b, c2, b2) ==
    IF SameValue(c, c2) THEN st ELSE SaveCountEffect(st, c2)

\* the store after a re-render from (c, b) to (c2, b2): an effect runs again
\* when its dependency has changed
EffectsAfterRender(st, c, b, c2, b2) ==
    LET st1 == IF SameValue(c, c2) THEN st ELSE SaveCountEffect(st, c2)
    IN  IF b = b2 THEN st1 ELSE SaveSoundEffect(st1, b2)

\* the keys those effects write
KeysAfterRender(c, b, c2, b2) ==
    (IF SameValue(c, c2) THEN {} ELSE {CounterKey})
    \cup (IF b = b2 THEN {} ELSE {SoundKey})

-----------------------------------------------------------------------------
(* Handlers: the value each one passes to its setter *)

\* handleIncrement on a count it has stopped following
IncrementValueStale(c) == Plus(DefaultCount, Num(1))

\* handleIncrement: setCount(count + 1)
IncrementValue(c) == Plus(c, Num(1))

\* handleDecrement without the clamp
DecrementValueUnclamped(c) == Minus(c, Num(1))

\* handleDecrement: setCount(Math.max(0, count - 1))
DecrementValue(c) == MathMax(Num(0), Minus(c, Num(1)))

\* handleReset written as count - count
ResetValueBySubtraction(c) == Minus(c, c)

\* handleReset: setCount(0)
ResetValue(c) == Num(0)

\* handleToggleSound switching the sound off only
ToggleValueOff(b) == FALSE

\* handleToggleSound: setSoundEnabled(!soundEnabled)
ToggleValue(b) == ~b

-----------------------------------------------------------------------------
(* The state machine *)

NoRun == [op |-> "none", n |-> 0, startCount |-> DefaultCount,
          startSound |-> DefaultSound, handles |-> 0, requests |-> 0]

NoPrev == [phase |-> "none", count |-> DefaultCount,
           soundEnabled |-> DefaultSound, run |-> NoRun]

CountOps == {"increment", "decrement", "reset"}

Init ==
    /\ phase = "unmounted"
    /\ count = DefaultCount
    /\ soundEnabled = DefaultSound
    /\ updates = <<>>
    /\ store \in InitStores
    /\ preload = NoPreload
    /\ lastPlay = NoPlay
    /\ written = {}
    /\ readKeys = {}
    /\ reads = [k \in Keys |-> 0]
    /\ lastOp = "none"
    /\ run = NoRun
    /\ prev = NoPrev
    /\ storeAtMount = store

\* a first render whose hooks start from what localStorage holds
MountFromStore ==
    /\ phase = "unmounted"
    /\ phase' = "painted"
    /\ count' = ApplyCount(DefaultCount, ReadEffect(store))
    /\ soundEnabled' = ApplySound(DefaultSound, ReadEffect(store))
    /\ updates' = <<>>
    /\ storeAtMount' = store
    /\ lastPlay' = NoPlay
    /\ written' = {}
    /\ readKeys' = {}
    /\ reads' = [k \in Keys |-> 0]
    /\ preload' = [preload EXCEPT !.created = 0]
    /\ lastOp' = "mount"
    /\ run' = NoRun
    /\ UNCHANGED <<store, prev>>

\* the first render of a mount: both hooks hold their defaults
Mount ==
    /\ phase = "unmounted"
    /\ phase' = "painted"
    /\ count' = DefaultCount
    /\ soundEnabled' = DefaultSound
    /\ updates' = <<>>
    /\ storeAtMount' = store
    /\ lastPlay' = NoPlay
    /\ written' = {}
    /\ readKeys' = {}
    /\ reads' = [k \in Keys |-> 0]
    /\ preload' = [preload EXCEPT !.created = 0]
    /\ lastOp' = "mount"
    /\ run' = NoRun
    /\ UNCHANGED <<store, prev>>

\* the effects of the first render, in the order of the source: the Audio
\* instance, the read of localStorage, the two saves
MountEffects ==
    /\ phase = "painted"
    /\ preload' = AudioEffect(preload)
    /\ updates' = ReadEffect(store)
    /\ readKeys' = Keys
    /\ reads' = CountReads(reads, Keys)
    /\ store' = SaveSoundEffect(SaveCountEffect(store, count), soundEnabled)
    /\ written' = Keys
    /\ phase' = IF updates' = <<>> THEN "idle" ELSE "pending"
    /\ lastPlay' = NoPlay
    /\ lastOp' = "mountEffects"
    /\ run' = NoRun
    /\ UNCHANGED <<count, soundEnabled, prev, storeAtMount>>

\* the re-render that adopts the updates queued by the read effect
Rerender ==
    /\ phase = "pending"
    /\ count' = ApplyCount(count, updates)
    /\ soundEnabled' = ApplySound(soundEnabled, updates)
    /\ store' = EffectsAfterRender(store, count, soundEnabled, count', soundEnabled')
    /\ written' = KeysAfterRender(count, soundEnabled, count', soundEnabled')
    /\ readKeys' = {}
    /\ updates' = <<>>
    /\ phase' = "idle"
    /\ lastPlay' = NoPlay
    /\ lastOp' = "rerender"
    /\ run' = [NoRun EXCEPT !.startCount = count', !.startSound = soundEnabled']
    /\ UNCHANGED <<preload, reads, prev, storeAtMount>>

\* a click: the sound, the update the handler queues unless an error has
\* left it, the re-render and the effects of the re-render
Click(op, play, ups) ==
    /\ phase = "idle"
    /\ run.op # op \/ run.n < MaxRun
    /\ lastPlay' = play
    /\ LET queued == IF play.raised THEN <<>> ELSE ups
       IN  /\ count' = ApplyCount(count, queued)
           /\ soundEnabled' = ApplySound(soundEnabled, queued)
    /\ store' = EffectsAfterRender(store, count, soundEnabled, count', soundEnabled')
    /\ written' = KeysAfterRender(count, soundEnabled, count', soundEnabled')
    /\ readKeys' = {}
    /\ updates' = <<>>
    /\ lastOp' = op
    /\ LET made == IF play.handle = "fresh" THEN 1 ELSE 0
           asked == IF play.request = "none" THEN 0 ELSE 1
       IN  run' = IF run.op = op
                  THEN [run EXCEPT !.n = @ + 1, !.handles = @ + made,
                                   !.requests = @ + asked]
                  ELSE [op |-> op, n |-> 1, startCount |-> count,
                        startSound |-> soundEnabled, handles |-> made,
                        requests |-> asked]
    /\ UNCHANGED <<phase, preload, reads, prev, storeAtMount>>

handleDecrement(outcome) ==
    Click("decrement", playClickSound(soundEnabled, outcome),
          <<SetCount(DecrementValue(count))>>)

handleIncrement(outcome) ==
    /\ IsNum(count) => count.val < MaxCount
    /\ Click("increment", playClickSound(soundEnabled, outcome),
             <<SetCount(IncrementValue(count))>>)

\* handleReset putting the sound back to its default as well
handleResetAll(outcome) ==
    Click("reset", playClickSound(soundEnabled, outcome),
          <<SetCount(ResetValue(count)), SetSoundEnabled(DefaultSound)>>)

handleReset(outcome) ==
    Click("reset", playClickSound(soundEnabled, outcome),
          <<SetCount(ResetValue(count))>>)

handleToggleSound ==
    Click("toggleSound", NoPlay, <<SetSoundEnabled(ToggleValue(soundEnabled))>>)

\* the page is left or reloaded: the cleanup of the Audio effect runs, if
\* the effect has run
Unmount ==
    /\ phase # "unmounted"
    /\ phase' = "unmounted"
    /\ preload' = IF phase = "painted" THEN preload ELSE AudioCleanup(preload)
    /\ prev' = [phase |-> phase, count |-> count, soundEnabled |-> soundEnabled,
                run |-> run]
    /\ updates' = <<>>
    /\ lastPlay' = NoPlay
    /\ written' = {}
    /\ readKeys' = {}
    /\ lastOp' = "unmount"
    /\ run' = NoRun
    /\ UNCHANGED <<count, soundEnabled, store, reads, storeAtMount>>

Next ==
    \/ Mount
    \/ MountEffects
    \/ Rerender
    \/ \E outcome \in Outcomes : handleDecrement(outcome)
    \/ \E outcome \in Outcomes : handleIncrement(outcome)
    \/ \E outcome \in Outcomes : handleReset(outcome)
    \/ handleToggleSound
    \/ Unmount

Spec == Init /\ [][Next]_vars

\* the mount/unmount/mount re-run of the effects that a development build
\* makes right after the mount effects: the cleanup of the Audio effect, then
\* the four effects again, still with the values of the first render
StrictRemount ==
    /\ phase \in {"pending", "idle"}
    /\ lastOp = "mountEffects"
    /\ preload' = AudioEffect(AudioCleanup(preload))
    /\ updates' = updates \o ReadEffect(store)
    /\ readKeys' = Keys
    /\ reads' = CountReads(reads, Keys)
    /\ store' = SaveSoundEffect(SaveCountEffect(store, count), soundEnabled)
    /\ written' = Keys
    /\ phase' = IF updates' = <<>> THEN "idle" ELSE "pending"
    /\ lastPlay' = NoPlay
    /\ lastOp' = "strictRemount"
    /\ run' = NoRun
    /\ UNCHANGED <<count, soundEnabled, prev, storeAtMount>>

NextStrict ==
    \/ Next
    \/ StrictRemount

\* the widget where a mount may re-run its effects
SpecStrict == Init /\ [][NextStrict]_vars

-----------------------------------------------------------------------------
(* Properties *)

\* the mount has settled and no user action has followed
Settled == phase = "idle" /\ lastOp \in {"mountEffects", "rerender"}

TextTrue == <<"t", "r", "u", "e">>

TextFalse == <<"f", "a", "l", "s", "e">>

\* C1: in every reachable state count is an integer >= 0, whatever the
\* 'counter-value' key held at mount and whatever actions followed
C1_CountNonNegative == IsNum(count) /\ count.val >= 0

\* C2: a reload from a settled state (unmount, mount, mount effects settled)
\* ends in the count and soundEnabled the widget had before the reload
C2_ReloadRoundTrip ==
    (Settled /\ prev.phase = "idle")
        => (count = prev.count /\ soundEnabled = prev.soundEnabled)

\* three increments from 0, then a reload, and the widget shows 3
C2_Witness ==
    /\ Settled
    /\ prev.phase = "idle"
    /\ prev.run.op = "increment"
    /\ prev.run.n = 3
    /\ prev.run.startCount = Num(0)
    /\ count = Num(3)

\* C3: once an action and its effects have run, 'counter-value' holds the
\* string of count (a text parseInt reads back as count) and 'sound-enabled'
\* holds "true" or "false" according to soundEnabled
C3_WriteThrough ==
    phase = "idle" =>
        /\ store[CounterKey].present
        /\ store[CounterKey].text = NumberToString(count)
        /\ parseInt(store[CounterKey].text) = count
        /\ store[SoundKey].present
        /\ store[SoundKey].text = (IF soundEnabled THEN TextTrue ELSE TextFalse)

\* a toggle to off after the count has been raised to 2
C3_Witness ==
    /\ phase = "idle"
    /\ lastOp = "toggleSound"
    /\ count = Num(2)
    /\ ~soundEnabled
    /\ store[CounterKey] = Present(<<"2">>)
    /\ store[SoundKey] = Present(TextFalse)

\* C4: after n increments in a row from a count c, count = c + n; from 0,
\* count = n
C4_IncrementCounts ==
    (run.op = "increment" /\ IsNum(run.startCount))
        => count = Num(run.startCount.val + run.n)

C4_Witness ==
    /\ run.op = "increment"
    /\ run.n = 3
    /\ run.startCount = Num(0)
    /\ count = Num(3)

\* C5: a decrement from count = 0 leaves 0, a decrement from k > 0 yields k - 1
C5_DecrementClamped ==
    [][\A o \in Outcomes :
         (handleDecrement(o) /\ IsNum(count) /\ count.val >= 0)
            => count' = Num(IF count.val = 0 THEN 0 ELSE count.val - 1)]_vars

\* two decrements from 1: the first yields 0, the second leaves 0
C5_Witness ==
    /\ run.op = "decrement"
    /\ run.n = 2
    /\ run.startCount = Num(1)
    /\ count = Num(0)

\* C6: a reset from any count, adopted from the store or not, yields 0
C6_ResetYieldsZero ==
    [][\A o \in Outcomes : handleReset(o) => count' = Num(0)]_vars

\* a reset of a count of 7 adopted from the store
C6_Witness ==
    /\ lastOp = "reset"
    /\ run.n = 1
    /\ run.startCount = Num(7)
    /\ storeAtMount[CounterKey] = Present(<<"7">>)
    /\ count = Num(0)

\* C7: a settled mount has the default of every variable whose key was
\* absent, and count = n when 'counter-value' held the decimal text of n
C7_MountHydration ==
    Settled =>
        /\ ~storeAtMount[CounterKey].present => count = Num(0)
        /\ ~storeAtMount[SoundKey].present => soundEnabled = TRUE
        /\ storeAtMount[CounterKey] = Present(<<"7">>) => count = Num(7)
        /\ \A n \in -99..99 :
              storeAtMount[CounterKey] = Present(NumberToString(Num(n)))
                 => count = Num(n)

\* a mount with "7" stored and no sound preference stored
C7_Witness ==
    /\ Settled
    /\ storeAtMount[CounterKey] = Present(<<"7">>)
    /\ ~storeAtMount[SoundKey].present
    /\ count = Num(7)
    /\ soundEnabled

\* C8: with soundEnabled false, an increment, decrement or reset creates no
\* audio handle and requests no playback
C8_NoPlaybackWhenOff ==
    [][\A o \in Outcomes :
         ((handleIncrement(o) \/ handleDecrement(o) \/ handleReset(o))
            /\ ~soundEnabled)
            => (lastPlay'.handle = "none" /\ lastPlay'.request = "none")]_vars

\* an increment after the sound was toggled off (no preference was stored)
C8_Witness ==
    /\ lastOp = "increment"
    /\ ~soundEnabled
    /\ ~storeAtMount[SoundKey].present
    /\ lastPlay.handle = "none"

\* C9: after n toggles in a row soundEnabled is its value before them when n
\* is even and the negation of it when n is odd
C9_ToggleInvolution ==
    run.op = "toggleSound"
        => soundEnabled = (IF run.n % 2 = 0 THEN run.startSound
                           ELSE ~run.startSound)

C9_Witness ==
    /\ run.op = "toggleSound"
    /\ run.n = 2
    /\ soundEnabled = run.startSound

\* the count the widget is to show after a count action
CountAfter(op, c) ==
    IF op = "reset" THEN Num(0)
    ELSE IF ~IsNum(c) THEN NaN
    ELSE IF op = "increment" THEN Num(c.val + 1)
    ELSE IF c.val <= 0 THEN Num(0)
    ELSE Num(c.val - 1)

CountStep(op, o) ==
    \/ op = "increment" /\ handleIncrement(o)
    \/ op = "decrement" /\ handleDecrement(o)
    \/ op = "reset" /\ handleReset(o)

\* C10: a count action whose playback request is rejected leaves the handler
\* without raising, and ends in the count, soundEnabled and store the action
\* is to produce
C10_RejectedPlaybackHarmless ==
    [][\A op \in CountOps :
         (CountStep(op, "rejected") /\ soundEnabled)
            => /\ lastPlay'.request = "rejected"
               /\ ~lastPlay'.raised
               /\ count' = CountAfter(op, count)
               /\ soundEnabled' = soundEnabled
               /\ store'[CounterKey] = Present(NumberToString(count'))
               /\ store'[SoundKey] = store[SoundKey]]_vars

\* an increment whose playback was rejected and logged
C10_Witness ==
    /\ lastOp = "increment"
    /\ lastPlay.request = "rejected"
    /\ lastPlay.logged
    /\ run.n = 1
    /\ run.startCount = Num(2)
    /\ count = Num(3)

\* C11 as stated: a decrement at count = 0 changes no value and still writes
\* 'counter-value', and plays the click sound when the sound is on
C11_DecrementAtZeroWrites ==
    [][\A o \in Outcomes :
         (handleDecrement(o) /\ count = Num(0))
            => /\ count' = count
               /\ CounterKey \in written'
               /\ soundEnabled => lastPlay'.handle = "fresh"]_vars

\* C11 amended: a decrement at count = 0 changes no value and writes no key,
\* the save effect not running for an unchanged count; 'counter-value' keeps
\* the text "0"; the click sound is played when the sound is on
C11_DecrementAtZeroNoWrite ==
    [][\A o \in Outcomes :
         (handleDecrement(o) /\ count = Num(0))
            => /\ count' = count
               /\ written' = {}
               /\ store' = store
               /\ store'[CounterKey] = Present(<<"0">>)
               /\ soundEnabled => (lastPlay'.handle = "fresh"
                                   /\ lastPlay'.request = o)]_vars

\* a decrement at 0 with the sound on
C11_Witness ==
    /\ lastOp = "decrement"
    /\ run.n = 1
    /\ run.startCount = Num(0)
    /\ run.startSound
    /\ count = Num(0)
    /\ written = {}
    /\ lastPlay.handle = "fresh"

\* the widget is mounted before and after the step
StaysMounted == phase # "unmounted" /\ phase' # "unmounted"

\* C12: per mount each key is read at most once and only by the read at
\* mount, and a key is written in a step exactly when the state variable it
\* saves changes in that step
C12_StorageProtocol ==
    [][/\ \A k \in Keys : reads'[k] <= 1
       /\ readKeys' # {} => lastOp' = "mountEffects"
       /\ StaysMounted =>
            /\ CounterKey \in written' <=> count' # count
            /\ SoundKey \in written' <=> soundEnabled' # soundEnabled]_vars

\* C13: increment, decrement and reset leave soundEnabled and 'sound-enabled'
\* alone, toggleSound leaves count and 'counter-value' alone, and among the
\* user actions only toggleSound changes soundEnabled
C13_FrameConditions ==
    [][/\ \A o \in Outcomes :
            (handleIncrement(o) \/ handleDecrement(o) \/ handleReset(o))
               => /\ soundEnabled' = soundEnabled
                  /\ store'[SoundKey] = store[SoundKey]
                  /\ SoundKey \notin written'
       /\ handleToggleSound
            => /\ count' = count
               /\ store'[CounterKey] = store[CounterKey]
               /\ CounterKey \notin written'
       /\ (phase = "idle" /\ phase' = "idle" /\ soundEnabled' # soundEnabled)
            => lastOp' = "toggleSound"]_vars

\* a reset of a count of 2 with the sound off
C13_Witness ==
    /\ lastOp = "reset"
    /\ run.startCount = Num(2)
    /\ count = Num(0)
    /\ ~soundEnabled
    /\ store[SoundKey] = Present(TextFalse)
    /\ written = {CounterKey}

\* C14: in the first rendered state of a mount, before the read of the
\* store, count = 0 and soundEnabled = true whatever the store holds
C14_FirstPaintDefaults ==
    phase = "painted" => (count = Num(0) /\ soundEnabled = TRUE)

\* the first paint of a reload, the store holding "3" and "false"
C14_Witness ==
    /\ phase = "painted"
    /\ prev.phase = "idle"
    /\ prev.count = Num(3)
    /\ ~prev.soundEnabled
    /\ store[CounterKey] = Present(<<"3">>)
    /\ store[SoundKey] = Present(TextFalse)
    /\ count = Num(0)

\* C15: with the sound on every count action makes a new handle, sets it to
\* time zero and requests its playback: k such actions in a row make k
\* handles and k requests
C15_FreshHandlePerAction ==
    (run.op \in CountOps /\ run.startSound)
        => /\ run.handles = run.n
           /\ run.requests = run.n
           /\ lastPlay.handle = "fresh"
           /\ lastPlay.currentTime = 0
           /\ lastPlay.request \in Outcomes

C15_Witness ==
    /\ run.op = "increment"
    /\ run.n = 3
    /\ run.startSound
    /\ run.handles = 3
    /\ run.requests = 3

\* C16: a widget whose mount effects have run holds exactly one preload
\* handle, made by this mount; an unmounted widget holds none that is not
\* released, the one it had being paused with its source cleared
C16_PreloadLifecycle ==
    /\ phase \in {"pending", "idle"} => (preload.live = 1 /\ preload.created = 1)
    /\ phase \in {"unmounted", "painted"} => preload.live = 0
    /\ (phase = "unmounted" /\ prev.phase \in {"pending", "idle"})
          => preload.cleanup = "paused, src cleared"

C16_Witness ==
    /\ phase = "unmounted"
    /\ lastOp = "unmount"
    /\ prev.phase = "idle"
    /\ preload.created = 1
    /\ preload.live = 0

TextNaN == <<"N", "a", "N">>

\* texts of 'counter-value' that hold no number
MalformedTexts == { <<"a", "b", "c">>, <<>> }

\* C17: a 'counter-value' that holds no number makes count NaN at mount and
\* "NaN" is written back; increment and decrement keep count NaN; reset, and
\* no other user action, returns count to 0
C17_MalformedPropagates ==
    [][/\ (Rerender /\ storeAtMount[CounterKey].present
                    /\ storeAtMount[CounterKey].text \in MalformedTexts)
            => /\ count' = NaN
               /\ CounterKey \in written'
               /\ store'[CounterKey] = Present(TextNaN)
       /\ \A o \in Outcomes :
            ((handleIncrement(o) \/ handleDecrement(o)) /\ count = NaN)
               => (count' = NaN /\ store'[CounterKey] = Present(TextNaN))
       /\ \A o \in Outcomes :
            (handleReset(o) /\ count = NaN) => count' = Num(0)
       /\ (phase = "idle" /\ phase' = "idle" /\ count = NaN /\ count' # NaN)
            => lastOp' = "reset"]_vars

\* two decrements of a NaN count adopted from the text "abc"
C17_Witness ==
    /\ storeAtMount[CounterKey] = Present(<<"a", "b", "c">>)
    /\ run.op = "decrement"
    /\ run.n = 2
    /\ run.startCount = NaN
    /\ count = NaN
    /\ store[CounterKey] = Present(TextNaN)

\* C19: a settled mount that found 'sound-enabled' present has soundEnabled
\* true exactly when the text was "true"; the key then holds "true" or "false"
C19_SoundHydrationTotal ==
    (Settled /\ storeAtMount[SoundKey].present)
        => /\ soundEnabled <=> storeAtMount[SoundKey].text = TextTrue
           /\ store[SoundKey].present
           /\ store[SoundKey].text \in {TextTrue, TextFalse}

\* a mount that found the text "TRUE"
C19_Witness ==
    /\ Settled
    /\ storeAtMount[SoundKey] = Present(<<"T", "R", "U", "E">>)
    /\ ~soundEnabled
    /\ store[SoundKey] = Present(TextFalse)

\* the store holds the decimal text of a count >= 0 and "true" or "false"
ValidSnapshot(st) ==
    /\ st[CounterKey].present
    /\ \E n \in 0..99 : st[CounterKey].text = NumberToString(Num(n))
    /\ st[SoundKey].present
    /\ st[SoundKey].text \in {TextTrue, TextFalse}

\* C18: once the mount effects, a re-run of them included, have settled and
\* before any user action, a valid snapshot found at mount is still what both
\* keys hold
C18_MountKeepsSnapshot ==
    (/\ phase = "idle"
     /\ lastOp \in {"mountEffects", "strictRemount", "rerender"}
     /\ ValidSnapshot(storeAtMount))
        => store = storeAtMount

====
